---- MODULE Spec2Model ----
(***************************************************************************)
(* Model of fdk-rust (src/src/main.rs): the environment snapshot FdkEnv,   *)
(* the threshold logger FdkRunner, the socket publisher FdkListener, the   *)
(* middleware pair fdk_middleware_req / fdk_middleware_res and the         *)
(* bootstrap actix_main.                                                   *)
(*                                                                         *)
(* Rust Strings and paths are TLA+ strings; Option<T> is the empty tuple   *)
(* (None) or a one-element tuple (Some).  The file system is a function    *)
(* from the paths that exist to their directory entries.  A system call    *)
(* whose preconditions hold may still fail (EACCES, ENOENT of a parent     *)
(* directory, ...), so every system call is a set of outcomes.             *)
(***************************************************************************)
EXTENDS Integers, Sequences, FiniteSets, TLC

VARIABLES
    env,        \* FdkEnv: the snapshot main() reads from the environment
    umask,      \* the process file-mode creation mask
    fs0,        \* the file system when the process starts
    fs,         \* the file system now
    listener,   \* Option<FdkListener>
    ret,        \* Option<RustFdkResult>: what the last finished call returned
    trace,      \* the file-system calls this process has made, in order
    stderr,     \* the lines written by eprintln!
    logs,       \* the calls of FdkRunner::log, in order
    pc,         \* position of the running program
    lk,         \* position inside link_socket_file
    reqs        \* the requests the server has accepted, by connection

vars == <<env, umask, fs0, fs, listener, ret, trace, stderr, logs, pc, lk, reqs>>

(***************************************************************************)
(* Bounds                                                                  *)
(***************************************************************************)
MaxPathLen == 2
MaxLinkCalls == 2
MaxConns == 2
MaxLog == 3
MaxSymlinks == 3

(***************************************************************************)
(* Option and Result                                                       *)
(***************************************************************************)
None == <<>>
Some(v) == <<v>>

Ok == [ok |-> TRUE, kind |-> "", message |-> ""]
\* RustFdkError::Fdk(FdkError::new(message)), through From<FdkError>
FdkErr(message) == [ok |-> FALSE, kind |-> "Fdk", message |-> message]
\* RustFdkError::Io(e), through #[from] and the ? operator; message names the call
IoErr(call) == [ok |-> FALSE, kind |-> "Io", message |-> call]

(***************************************************************************)
(* Strings                                                                 *)
(***************************************************************************)
SOCKET_PREFIX == "unix:/"
PRIVATE_SOCKET_SUFFIX == ".private"

\* str::contains in place of str::starts_with
starts_with_anywhere(s, prefix) ==
    \E i \in 1..(Len(s) - Len(prefix) + 1) : SubSeq(s, i, i + Len(prefix) - 1) = prefix

\* str::starts_with
starts_with(s, prefix) ==
    /\ Len(s) >= Len(prefix)
    /\ SubSeq(s, 1, Len(prefix)) = prefix

\* str::trim_start_matches in place of str::strip_prefix: every leading
\* repetition of the prefix is removed
RECURSIVE strip_prefix_repeatedly(_, _)
strip_prefix_repeatedly(s, prefix) ==
    IF Len(s) >= Len(prefix) /\ SubSeq(s, 1, Len(prefix)) = prefix
    THEN LET rest == SubSeq(s, Len(prefix) + 1, Len(s)) IN
         IF Len(rest) >= Len(prefix) /\ SubSeq(rest, 1, Len(prefix)) = prefix
         THEN strip_prefix_repeatedly(rest, prefix)
         ELSE Some(rest)
    ELSE None

\* str::strip_prefix: the prefix is removed once, from the front
strip_prefix(s, prefix) ==
    IF starts_with(s, prefix)
    THEN Some(SubSeq(s, Len(prefix) + 1, Len(s)))
    ELSE None

(***************************************************************************)
(* File system                                                             *)
(***************************************************************************)
NoFiles == [p \in {} |-> 0]

Entry(kind, mode, target, by) ==
    [kind |-> kind, mode |-> mode, target |-> target, by |-> by]

RECURSIVE BitAnd(_, _)
BitAnd(a, b) ==
    IF a = 0 \/ b = 0 THEN 0
    ELSE (a % 2) * (b % 2) + 2 * BitAnd(a \div 2, b \div 2)

\* 0o777 and 0o666
ModeAll == 511
ModeRW == 438

\* a - (a & b): the bits of a that b does not mask
ClearBits(a, b) == a - BitAnd(a, b)

\* the entry at the path is unlinked before the bind
UnixListener_bind_replacing(f, path, um) ==
    {[ok |-> TRUE,
      fs |-> [p \in DOMAIN f \cup {path} |->
                IF p = path THEN Entry("socket", ClearBits(ModeAll, um), "", "self")
                ELSE f[p]]],
     [ok |-> FALSE, fs |-> f]}

\* UnixListener::bind: bind(2) creates the socket inode with mode
\* 0o777 & ~umask and fails with EADDRINUSE when anything, a dangling
\* symlink included, is at the path.
UnixListener_bind(f, path, um) ==
    IF path \in DOMAIN f
    THEN {[ok |-> FALSE, fs |-> f]}
    ELSE {[ok |-> TRUE,
           fs |-> f @@ (path :> Entry("socket", ClearBits(ModeAll, um), "", "self"))],
          [ok |-> FALSE, fs |-> f]}

\* Follow symbolic links from path, at most n of them (ELOOP beyond).
RECURSIVE Resolve(_, _, _)
Resolve(f, path, n) ==
    IF path \notin DOMAIN f THEN None
    ELSE IF f[path].kind # "symlink" THEN Some(path)
    ELSE IF n = 0 THEN None
    ELSE Resolve(f, f[path].target, n - 1)

\* File::open: open(2) read-only, following symbolic links.  The result is
\* the inode the descriptor refers to.  ENOENT when nothing is there; what
\* open(2) does on a socket inode is left to the platform (Linux answers
\* ENXIO, the BSDs EOPNOTSUPP), so on an existing path both outcomes are kept.
File_open(f, path) ==
    LET r == Resolve(f, path, MaxSymlinks) IN
    IF r = None
    THEN {[ok |-> FALSE, file |-> ""]}
    ELSE {[ok |-> TRUE, file |-> r[1]], [ok |-> FALSE, file |-> ""]}

\* Permissions::from_mode
Permissions_from_mode(mode) == mode

\* the permissions are built but never applied to the file
File_set_permissions_unapplied(f, file, perm) ==
    {[ok |-> TRUE, fs |-> f], [ok |-> FALSE, fs |-> f]}

\* File::set_permissions: fchmod(2) replaces the permission bits of the inode
File_set_permissions(f, file, perm) ==
    {[ok |-> TRUE, fs |-> [f EXCEPT ![file].mode = perm]],
     [ok |-> FALSE, fs |-> f]}

\* an existing entry at link is replaced, as ln -sf does
symlink_replacing(f, original, link) ==
    IF link = ""
    THEN {[ok |-> FALSE, fs |-> f]}
    ELSE {[ok |-> TRUE,
           fs |-> [p \in DOMAIN f \cup {link} |->
                     IF p = link THEN Entry("symlink", ModeAll, original, "self")
                     ELSE f[p]]],
          [ok |-> FALSE, fs |-> f]}

\* std::os::unix::fs::symlink(original, link): symlink(2) creates link
\* pointing to original; EEXIST when link exists, ENOENT when link is empty.
symlink(f, original, link) ==
    IF link \in DOMAIN f \/ link = ""
    THEN {[ok |-> FALSE, fs |-> f]}
    ELSE {[ok |-> TRUE, fs |-> f @@ (link :> Entry("symlink", ModeAll, original, "self"))],
          [ok |-> FALSE, fs |-> f]}

Call(op, path, ok) == [op |-> op, path |-> path, ok |-> ok]

(***************************************************************************)
(* FdkListener::new                                                        *)
(***************************************************************************)
NewOutcome(res, f, l, calls) == [res |-> res, fs |-> f, listener |-> l, calls |-> calls]

\* PathBuf::from(stripped_url)
socket_path_of(stripped_url) == stripped_url

\* PathBuf::from([stripped_url, PRIVATE_SOCKET_SUFFIX].concat())
private_socket_path_of(stripped_url) == stripped_url \o PRIVATE_SOCKET_SUFFIX

FdkListener_new(e, f, um) ==
    IF e.fn_listener = None
    THEN {NewOutcome(FdkErr("No listener url provided"), f, None, <<>>)}
    ELSE LET url == e.fn_listener[1] IN
      IF ~starts_with(url, SOCKET_PREFIX)
      THEN {NewOutcome(FdkErr("Listener url is not a unix socket"), f, None, <<>>)}
      ELSE IF strip_prefix(url, SOCKET_PREFIX) = None
      THEN {NewOutcome(FdkErr("Cannot strip FdkListener.url prefix"), f, None, <<>>)}
      ELSE LET stripped_url == strip_prefix(url, SOCKET_PREFIX)[1]
               private_socket_path == private_socket_path_of(stripped_url)
           IN { IF b.ok
                THEN NewOutcome(Ok, b.fs,
                        Some([socket_path |-> socket_path_of(stripped_url),
                              private_socket_path |-> private_socket_path,
                              private_socket |-> private_socket_path]),
                        <<Call("bind", private_socket_path, TRUE)>>)
                ELSE NewOutcome(IoErr("bind"), b.fs, None,
                        <<Call("bind", private_socket_path, FALSE)>>)
                : b \in UnixListener_bind(f, private_socket_path, um) }

(***************************************************************************)
(* u32: two 16-bit limbs, so that 2^32 - 1 and the overflow of             *)
(* str::parse::<u32> are representable                                     *)
(***************************************************************************)
Limb == 65536
U32(n) == [hi |-> n \div Limb, lo |-> n % Limb]

\* a >= b on u32
u32_ge(a, b) == a.hi > b.hi \/ (a.hi = b.hi /\ a.lo >= b.lo)

\* u32::checked_mul(10) then u32::checked_add(d): None on overflow
checked_mul10_add(a, d) ==
    LET lo == a.lo * 10 + d
        hi == a.hi * 10 + lo \div Limb
    IN IF hi >= Limb THEN None ELSE Some([hi |-> hi, lo |-> lo % Limb])

Digits == "0123456789"
IsDigit(c) == \E i \in 1..10 : SubSeq(Digits, i, i) = c
DigitVal(c) == CHOOSE d \in 0..9 : SubSeq(Digits, d + 1, d + 1) = c

RECURSIVE ParseDigits(_, _, _)
ParseDigits(s, i, acc) ==
    IF i > Len(s) THEN Some(acc)
    ELSE LET c == SubSeq(s, i, i) IN
         IF ~IsDigit(c) THEN None
         ELSE LET next == checked_mul10_add(acc, DigitVal(c)) IN
              IF next = None THEN None ELSE ParseDigits(s, i + 1, next[1])

\* str::parse::<u32>: an optional leading "+", then one or more decimal
\* digits; no sign "-", no blanks; Err on empty input and on overflow.
parse_u32(s) ==
    IF s = "" THEN None
    ELSE LET first == SubSeq(s, 1, 1) IN
         IF Len(s) = 1 /\ first \in {"+", "-"} THEN None
         ELSE IF first = "+" THEN ParseDigits(s, 2, U32(0))
         ELSE ParseDigits(s, 1, U32(0))

(***************************************************************************)
(* FdkRunner                                                               *)
(***************************************************************************)
FDK_LOG_DEBUG == 0
FDK_LOG_DEFAULT == 1

\* Option::unwrap_or
unwrap_or(opt, default) == IF opt = None THEN default ELSE opt[1]

\* the variable is not consulted
FdkRunner_get_log_threshold_fixed(e) == U32(FDK_LOG_DEFAULT)

FdkRunner_get_log_threshold(e) ==
    IF e.fdk_log_threshold = None
    THEN U32(FDK_LOG_DEFAULT)
    ELSE unwrap_or(parse_u32(e.fdk_log_threshold[1]), U32(FDK_LOG_DEFAULT))

\* > in place of >=
log_enabled_above(e, log_level) ==
    ~u32_ge(FdkRunner_get_log_threshold(e), unwrap_or(log_level, U32(FDK_LOG_DEFAULT)))

\* the condition of FdkRunner::log
log_enabled(e, log_level) ==
    u32_ge(unwrap_or(log_level, U32(FDK_LOG_DEFAULT)), FdkRunner_get_log_threshold(e))

\* FdkRunner::log: the diagnostic stream after the call
FdkRunner_log(e, out, content, log_level) ==
    IF log_enabled(e, log_level) THEN Append(out, content) ELSE out

\* FdkRunner::debug
FdkRunner_debug(e, out, content) ==
    FdkRunner_log(e, out, content, Some(U32(FDK_LOG_DEBUG)))

\* [String]::join
RECURSIVE join(_, _)
join(frames, sep) ==
    IF frames = <<>> THEN ""
    ELSE IF Len(frames) = 1 THEN frames[1]
    ELSE frames[1] \o sep \o join(Tail(frames), sep)

\* the backtrace logged at the default severity as well
FdkRunner_log_error_all_default(e, out, err) ==
    FdkRunner_log(e,
        FdkRunner_log(e, out, err.message, None),
        join(err.backtrace, "\n"), None)

\* FdkRunner::log_error
FdkRunner_log_error(e, out, err) ==
    FdkRunner_log(e,
        FdkRunner_log(e, out, err.message, None),
        join(err.backtrace, "\n"), Some(U32(FDK_LOG_DEBUG)))

\* a call of FdkRunner::log and the method it was made through
LogCall(via, content, log_level) ==
    [via |-> via, content |-> content, log_level |-> log_level]

(***************************************************************************)
(* Inputs                                                                  *)
(***************************************************************************)
Alphabet == {"a", "/"}

RECURSIVE PathsOfLen(_)
PathsOfLen(n) ==
    IF n = 0 THEN {""}
    ELSE {p \o c : p \in PathsOfLen(n - 1), c \in Alphabet}

Paths == UNION {PathsOfLen(n) : n \in 0..MaxPathLen}

ListenerUrls ==
    {"unix:/" \o p : p \in Paths}
    \cup {"unix:/unix:/a", "unix:/tmp/test.sock"}
    \cup {"", "a", "unix:", "unix:a", "UNIX:/a", "tcp:/a", "/unix:/a"}

ThresholdTexts ==
    {"0", "1", "2", "+0", "-1", "", "abc", " 1", "01", "4294967295", "4294967296"}

\* the values of FDK_LOG_THRESHOLD used where the logger is not the subject
FewThresholds == {None, Some("0"), Some("2")}

EnvOf(fn_listener, fdk_log_threshold) ==
    [fn_listener |-> fn_listener, fdk_log_threshold |-> fdk_log_threshold]

\* what an earlier run of the same container can have left behind
StalePrivate == "a.private" :> Entry("socket", 493, "", "other")
StalePublic == "a" :> Entry("symlink", ModeAll, "a.private", "other")
InitialFs == {NoFiles, StalePrivate, StalePublic, StalePrivate @@ StalePublic}

\* 0o022 and 0o077
Umasks == {18, 63}

LkIdle(calls) == [at |-> "idle", file |-> "", calls |-> calls]

\* the process starts on any of the file systems above
InitFiles ==
    /\ umask \in Umasks
    /\ fs0 \in InitialFs
    /\ fs = fs0

\* the file system plays no part
InitNoFiles ==
    /\ umask = 18
    /\ fs0 = NoFiles
    /\ fs = fs0

InitCommon ==
    /\ listener = None
    /\ ret = None
    /\ trace = <<>>
    /\ stderr = <<>>
    /\ logs = <<>>
    /\ lk = LkIdle(0)
    /\ reqs = <<>>

(***************************************************************************)
(* The socket publisher, driven call by call: FdkListener::new, then       *)
(* link_socket_file, each file-system call of which is one step.           *)
(***************************************************************************)
InitPublisher ==
    /\ env \in {EnvOf(l, t) : l \in {None} \cup {Some(u) : u \in ListenerUrls},
                               t \in FewThresholds}
    /\ pc = "start"
    /\ InitFiles
    /\ InitCommon

New ==
    /\ pc = "start"
    /\ \E o \in FdkListener_new(env, fs, umask) :
        /\ fs' = o.fs
        /\ listener' = o.listener
        /\ ret' = Some(o.res)
        /\ trace' = trace \o o.calls
        /\ pc' = IF o.res.ok THEN "built" ELSE "failed"
    /\ UNCHANGED <<env, umask, fs0, stderr, logs, lk, reqs>>

\* link_socket_file, line 160: File::open(private_socket_path)
LinkOpen ==
    /\ pc = "built"
    /\ lk.at = "idle"
    /\ lk.calls < MaxLinkCalls
    /\ \E o \in File_open(fs, listener[1].private_socket_path) :
        /\ trace' = Append(trace, Call("open", listener[1].private_socket_path, o.ok))
        /\ IF o.ok
           THEN /\ lk' = [at |-> "opened", file |-> o.file, calls |-> lk.calls + 1]
                /\ ret' = None
           ELSE /\ lk' = LkIdle(lk.calls + 1)
                /\ ret' = Some(FdkErr("Cannot access private socket file"))
    /\ UNCHANGED <<env, umask, fs0, fs, listener, stderr, logs, pc, reqs>>

\* set_permissions without its ?: the result is dropped
LinkSetPermissions_unchecked ==
    /\ lk.at = "opened"
    /\ \E o \in File_set_permissions(fs, lk.file, Permissions_from_mode(ModeRW)) :
        /\ fs' = o.fs
        /\ trace' = Append(trace, Call("set_permissions", lk.file, o.ok))
        /\ lk' = [lk EXCEPT !.at = "widened"]
        /\ ret' = None
    /\ UNCHANGED <<env, umask, fs0, listener, stderr, logs, pc, reqs>>

\* line 163: file.set_permissions(Permissions::from_mode(0o666))?
LinkSetPermissions ==
    /\ lk.at = "opened"
    /\ \E o \in File_set_permissions(fs, lk.file, Permissions_from_mode(ModeRW)) :
        /\ fs' = o.fs
        /\ trace' = Append(trace, Call("set_permissions", lk.file, o.ok))
        /\ IF o.ok
           THEN /\ lk' = [lk EXCEPT !.at = "widened"]
                /\ ret' = None
           ELSE /\ lk' = LkIdle(lk.calls)
                /\ ret' = Some(IoErr("set_permissions"))
    /\ UNCHANGED <<env, umask, fs0, listener, stderr, logs, pc, reqs>>

\* the symlink without its ?: the result is dropped
LinkSymlink_unchecked ==
    /\ lk.at = "widened"
    /\ \E o \in symlink(fs, listener[1].private_socket_path, listener[1].socket_path) :
        /\ fs' = o.fs
        /\ trace' = Append(trace, Call("symlink", listener[1].socket_path, o.ok))
        /\ lk' = [lk EXCEPT !.at = "linked"]
        /\ ret' = None
    /\ UNCHANGED <<env, umask, fs0, listener, stderr, logs, pc, reqs>>

\* lines 164-167: symlink(private_socket_path, socket_path)?
LinkSymlink ==
    /\ lk.at = "widened"
    /\ \E o \in symlink(fs, listener[1].private_socket_path, listener[1].socket_path) :
        /\ fs' = o.fs
        /\ trace' = Append(trace, Call("symlink", listener[1].socket_path, o.ok))
        /\ IF o.ok
           THEN /\ lk' = [lk EXCEPT !.at = "linked"]
                /\ ret' = None
           ELSE /\ lk' = LkIdle(lk.calls)
                /\ ret' = Some(IoErr("symlink"))
    /\ UNCHANGED <<env, umask, fs0, listener, stderr, logs, pc, reqs>>

\* the line link_socket_file logs
ListeningOn(l) == "Listening on " \o l.private_socket_path \o "->" \o l.socket_path

\* lines 168-177: self.runner.debug(...); Ok(())
LinkDebug ==
    /\ lk.at = "linked"
    /\ stderr' = FdkRunner_debug(env, stderr, ListeningOn(listener[1]))
    /\ logs' = Append(logs, LogCall("debug", ListeningOn(listener[1]), Some(U32(FDK_LOG_DEBUG))))
    /\ lk' = LkIdle(lk.calls)
    /\ ret' = Some(Ok)
    /\ UNCHANGED <<env, umask, fs0, fs, listener, trace, pc, reqs>>

NextPublisher ==
    \/ New
    \/ LinkOpen
    \/ LinkSetPermissions
    \/ LinkSymlink
    \/ LinkDebug

SpecPublisher == InitPublisher /\ [][NextPublisher]_vars

(***************************************************************************)
(* Requests, responses and the middleware pair                             *)
(***************************************************************************)
NoHeaders == [h \in {} |-> <<>>]

Request(method, headers) == [method |-> method, uri |-> "/call", headers |-> headers]
Response(status, headers, body) == [status |-> status, headers |-> headers, body |-> body]

\* the characters http::header::HeaderName::from_static accepts: the token
\* characters of a header name in lower case (HEADER_CHARS_H2); the grave
\* accent, also accepted, is not written here
HeaderNameChars ==
    {"a", "b", "c", "d", "e", "f", "g", "h", "i", "j", "k", "l", "m",
     "n", "o", "p", "q", "r", "s", "t", "u", "v", "w", "x", "y", "z",
     "0", "1", "2", "3", "4", "5", "6", "7", "8", "9",
     "!", "#", "$", "%", "&", "'", "*", "+", "-", ".", "^", "_", "|", "~"}

\* HeaderName::from_static: the name, or None when the call panics
\* ("invalid header name": an empty name, or a character outside
\* HeaderNameChars, an upper-case letter included)
HeaderName_from_static(src) ==
    IF src # "" /\ \A i \in 1..Len(src) : SubSeq(src, i, i) \in HeaderNameChars
    THEN Some(src)
    ELSE None

\* HeaderValue::from_static
HeaderValue_from_static(src) == src

\* HeaderMap::insert: the name keeps exactly the value given
HeaderMap_insert(headers, name, value) ==
    [h \in DOMAIN headers \cup {name} |-> IF h = name THEN <<value>> ELSE headers[h]]

\* the request is rebuilt without its headers
fdk_middleware_req_bare(req, e) == [req EXCEPT !.headers = NoHeaders]

\* fdk_middleware_req
fdk_middleware_req(req, e) == req

\* fdk_middleware_res: the response, or None when the call panics
fdk_middleware_res(res) ==
    LET name == HeaderName_from_static("Connection") IN
    IF name = None THEN None
    ELSE Some([res EXCEPT !.headers =
                 HeaderMap_insert(res.headers, name[1], HeaderValue_from_static("close"))])

Requests ==
    {Request("GET", NoHeaders), Request("POST", "connection" :> <<"keep-alive">>)}

\* Result<ServiceResponse, Error> of the wrapped service
SrvOk(res) == [ok |-> TRUE, res |-> res]
SrvErr == [ok |-> FALSE, res |-> Response(0, NoHeaders, "")]

\* default_service(web::to(HttpResponse::Ok)): a bare 200
DefaultService(req) == {SrvOk(Response(200, NoHeaders, ""))}

\* any terminal handler: a success or an error response with the
\* Connection header absent, keep-alive or something else, or a failure
StubService(req) ==
    {SrvOk(Response(200, NoHeaders, "")),
     SrvOk(Response(200, "connection" :> <<"keep-alive">>, "out")),
     SrvOk(Response(200, ("connection" :> <<"upgrade">>) @@ ("upgrade" :> <<"h2c">>), "")),
     SrvOk(Response(500, "content-type" :> <<"text/plain">>, "boom")),
     SrvOk(Response(500, ("connection" :> <<"keep-alive", "te">>)
                          @@ ("content-type" :> <<"text/plain">>), "boom")),
     SrvErr}

\* one request inside the wrap_fn closure
Exchange(req) ==
    [at |-> "start", req |-> req, env |-> None, handled |-> None, inner |-> None,
     out |-> None, res_calls |-> 0, steps |-> <<>>]

\* a default configuration in place of the copy
clone_env_default(e) == EnvOf(None, None)

\* line 224, Arc::new(env.as_ref().clone()), and the env.clone() of lines
\* 226 and 230: the configuration the closure reads
clone_env(e) == e

\* the request goes to the service as it came
WrapCall_untransformed(i) ==
    /\ reqs[i].at = "start"
    /\ reqs' = [reqs EXCEPT ![i].at = "called",
                             ![i].env = Some(clone_env(env)),
                             ![i].handled = Some(reqs[i].req)]
    /\ UNCHANGED <<env, umask, fs0, fs, listener, ret, trace, stderr, logs, pc, lk>>

\* line 230: srv.call(fdk_middleware_req(req, env.clone()))
WrapCall(i) ==
    /\ reqs[i].at = "start"
    /\ reqs' = [reqs EXCEPT ![i].at = "called",
                             ![i].env = Some(clone_env(env)),
                             ![i].handled = Some(fdk_middleware_req(reqs[i].req,
                                                                    clone_env(env))),
                             ![i].steps = Append(reqs[i].steps, "fdk_middleware_req")]
    /\ UNCHANGED <<env, umask, fs0, fs, listener, ret, trace, stderr, logs, pc, lk>>

\* the future srv.call returned becomes ready
Ready(i, results) ==
    /\ reqs[i].at = "called"
    /\ \E r \in results :
        reqs' = [reqs EXCEPT ![i].at = "ready", ![i].inner = Some(r),
                             ![i].steps = Append(reqs[i].steps, "handler")]
    /\ UNCHANGED <<env, umask, fs0, fs, listener, ret, trace, stderr, logs, pc, lk>>

\* line 232: Ok(fdk_middleware_res(resp.await?))
WrapResume(i) ==
    /\ reqs[i].at = "ready"
    /\ LET inner == reqs[i].inner[1] IN
       IF ~inner.ok
       THEN reqs' = [reqs EXCEPT ![i].at = "done", ![i].out = Some(inner)]
       ELSE LET res == fdk_middleware_res(inner.res) IN
            IF res = None
            THEN reqs' = [reqs EXCEPT ![i].at = "panicked",
                                      ![i].res_calls = reqs[i].res_calls + 1,
                                      ![i].steps = Append(reqs[i].steps, "fdk_middleware_res")]
            ELSE reqs' = [reqs EXCEPT ![i].at = "done",
                                      ![i].out = Some(SrvOk(res[1])),
                                      ![i].res_calls = reqs[i].res_calls + 1,
                                      ![i].steps = Append(reqs[i].steps, "fdk_middleware_res")]
    /\ UNCHANGED <<env, umask, fs0, fs, listener, ret, trace, stderr, logs, pc, lk>>

(***************************************************************************)
(* The wrap_fn closure around any terminal handler                         *)
(***************************************************************************)
InitMiddleware ==
    /\ env \in {EnvOf(Some("unix:/a"), t) : t \in FewThresholds}
    /\ pc = "pipeline"
    /\ InitNoFiles
    /\ InitCommon

Arrive ==
    /\ pc = "pipeline"
    /\ Len(reqs) < MaxConns
    /\ \E r \in Requests : reqs' = Append(reqs, Exchange(r))
    /\ UNCHANGED <<env, umask, fs0, fs, listener, ret, trace, stderr, logs, pc, lk>>

StubReady == \E i \in 1..Len(reqs) : Ready(i, StubService(reqs[i].handled[1]))

CallService == \E i \in 1..Len(reqs) : WrapCall(i)

Resume == \E i \in 1..Len(reqs) : WrapResume(i)

NextMiddleware ==
    \/ Arrive
    \/ CallService
    \/ StubReady
    \/ Resume

SpecMiddleware == InitMiddleware /\ [][NextMiddleware]_vars

(***************************************************************************)
(* actix_main                                                              *)
(***************************************************************************)
Init ==
    /\ env \in {EnvOf(l, t) : l \in {None} \cup {Some(u) : u \in ListenerUrls},
                               t \in FewThresholds}
    /\ pc = "start"
    /\ InitFiles
    /\ InitCommon

\* the Err is dropped and the program goes on
unwrap_ignored(res, next) == next

\* Result::unwrap: the program goes on to next, or panics on Err
unwrap(res, next) == IF res.ok THEN next ELSE "panicked"

\* lines 221-222: FdkListener::new(Rc::clone(&env), runner).unwrap()
MainNew ==
    /\ pc = "start"
    /\ \E o \in FdkListener_new(env, fs, umask) :
        /\ fs' = o.fs
        /\ listener' = o.listener
        /\ ret' = Some(o.res)
        /\ trace' = trace \o o.calls
        /\ pc' = unwrap(o.res, "built")
    /\ UNCHANGED <<env, umask, fs0, stderr, logs, lk, reqs>>

\* lines 224-240: HttpServer::new(..).listen_uds(listener.private_socket)
\* .unwrap().run(); listen_uds is an io::Result
MainListen ==
    /\ pc = "built"
    /\ \E res \in {Ok, IoErr("listen_uds")} :
        /\ pc' = unwrap(res, "serving")
        /\ ret' = Some(res)
    /\ UNCHANGED <<env, umask, fs0, fs, listener, trace, stderr, logs, lk, reqs>>

\* the server accepts a connection on the private socket and reads a request
Accept ==
    /\ pc = "serving"
    /\ Len(reqs) < MaxConns
    /\ \E r \in Requests : reqs' = Append(reqs, Exchange(r))
    /\ UNCHANGED <<env, umask, fs0, fs, listener, ret, trace, stderr, logs, pc, lk>>

DefaultReady == \E i \in 1..Len(reqs) : Ready(i, DefaultService(reqs[i].handled[1]))

Next ==
    \/ MainNew
    \/ MainListen
    \/ Accept
    \/ CallService
    \/ DefaultReady
    \/ Resume

Spec == Init /\ [][Next]_vars

(***************************************************************************)
(* The logger, driven call by call                                         *)
(***************************************************************************)
Contents == {"m1", "m2"}
Levels == {None} \cup {Some(U32(n)) : n \in 0..2}
Errors ==
    {[message |-> "plain", backtrace |-> <<>>],
     [message |-> "traced", backtrace |-> <<"f1", "f2">>]}

InitLogger ==
    /\ env \in {EnvOf(None, t) : t \in {None} \cup {Some(x) : x \in ThresholdTexts}}
    /\ pc = "logger"
    /\ InitNoFiles
    /\ InitCommon

Log ==
    /\ pc = "logger"
    /\ Len(logs) < MaxLog
    /\ \E content \in Contents, log_level \in Levels :
        /\ stderr' = FdkRunner_log(env, stderr, content, log_level)
        /\ logs' = Append(logs, LogCall("log", content, log_level))
    /\ UNCHANGED <<env, umask, fs0, fs, listener, ret, trace, pc, lk, reqs>>

Debug ==
    /\ pc = "logger"
    /\ Len(logs) < MaxLog
    /\ \E content \in Contents :
        /\ stderr' = FdkRunner_debug(env, stderr, content)
        /\ logs' = Append(logs, LogCall("debug", content, Some(U32(FDK_LOG_DEBUG))))
    /\ UNCHANGED <<env, umask, fs0, fs, listener, ret, trace, pc, lk, reqs>>

LogError ==
    /\ pc = "logger"
    /\ Len(logs) + 2 <= MaxLog
    /\ \E err \in Errors :
        /\ stderr' = FdkRunner_log_error(env, stderr, err)
        /\ logs' = logs \o <<LogCall("log_error", err.message, None),
                              LogCall("log_error", join(err.backtrace, "\n"),
                                      Some(U32(FDK_LOG_DEBUG)))>>
    /\ UNCHANGED <<env, umask, fs0, fs, listener, ret, trace, pc, lk, reqs>>

NextLogger ==
    \/ Log
    \/ Debug
    \/ LogError

SpecLogger == InitLogger /\ [][NextLogger]_vars

(***************************************************************************)
(* Properties                                                              *)
(***************************************************************************)
\* the symbolic links this process has created
CreatedLinks == {p \in DOMAIN fs : fs[p].kind = "symlink" /\ fs[p].by = "self"}

\* mode grants read and write to owner, group and others
GrantsReadWriteToAll(mode) == BitAnd(mode, 438) = 438

BindFailed == \E i \in 1..Len(trace) : trace[i].op = "bind" /\ ~trace[i].ok

\* C1: in every state, a symbolic link this process has created is the one
\* at public_path, and then the private socket is bound at private_path
\* and its mode is already widened; when the bind has failed, no symbolic
\* link has been created or attempted.
BindBeforePublish ==
    /\ \A p \in CreatedLinks :
        /\ listener # None
        /\ p = listener[1].socket_path
        /\ listener[1].private_socket_path \in DOMAIN fs
        /\ fs[listener[1].private_socket_path].kind = "socket"
        /\ fs[listener[1].private_socket_path].by = "self"
        /\ GrantsReadWriteToAll(fs[listener[1].private_socket_path].mode)
    /\ BindFailed =>
        /\ CreatedLinks = {}
        /\ \A i \in 1..Len(trace) : trace[i].op # "symlink"

\* the link has just been created by link_socket_file, on a socket whose
\* mode was narrower when it was bound
SymlinkCreated ==
    /\ lk.at = "linked"
    /\ CreatedLinks # {}
    /\ umask = 63

\* C2: a request whose terminal handler produced a response leaves the
\* pipeline with a response whose Connection header is the single value close
ConnectionCloseOnEveryResponse ==
    \A i \in 1..Len(reqs) :
        (reqs[i].at \in {"done", "panicked"} /\ reqs[i].inner[1].ok) =>
            /\ reqs[i].at = "done"
            /\ reqs[i].out[1].ok
            /\ "connection" \in DOMAIN reqs[i].out[1].res.headers
            /\ reqs[i].out[1].res.headers["connection"] = <<"close">>

\* C3: a request whose terminal handler failed has left the pipeline
\* through the post-response transform
TransformRunsOnHandlerFailure ==
    \A i \in 1..Len(reqs) :
        (reqs[i].at \in {"done", "panicked"} /\ ~reqs[i].inner[1].ok) =>
            reqs[i].res_calls = 1

\* C4: when the server is serving, the symbolic link at public_path has
\* been created by this process, after the listener was constructed
PublishedBeforeServing ==
    pc = "serving" =>
        /\ \E i, j \in 1..Len(trace) :
            /\ i < j
            /\ trace[i].op = "bind" /\ trace[i].ok
            /\ trace[j].op = "symlink" /\ trace[j].ok
        /\ listener[1].socket_path \in CreatedLinks

\* C5: with FN_LISTENER=unix:/tmp/test.sock on a clean file system, once
\* serving, /tmp/test.sock is a symbolic link to /tmp/test.sock.private and
\* every request that has been answered got status 200 and Connection: close
EndToEnd ==
    (/\ env.fn_listener = Some("unix:/tmp/test.sock")
     /\ fs0 = NoFiles
     /\ pc = "serving") =>
        /\ "/tmp/test.sock" \in DOMAIN fs
        /\ fs["/tmp/test.sock"].kind = "symlink"
        /\ fs["/tmp/test.sock"].target = "/tmp/test.sock.private"
        /\ \A i \in 1..Len(reqs) :
            reqs[i].at \in {"done", "panicked"} =>
                /\ reqs[i].at = "done"
                /\ reqs[i].out[1].ok
                /\ reqs[i].out[1].res.status = 200
                /\ "connection" \in DOMAIN reqs[i].out[1].res.headers
                /\ reqs[i].out[1].res.headers["connection"] = <<"close">>

\* the listener values that do not start with unix:/
NotUnixUrls == {"", "a", "unix:", "unix:a", "UNIX:/a", "tcp:/a", "/unix:/a"}

\* C6: once FdkListener::new has run on an absent listener, or on one that
\* does not start with unix:/, it has failed with the FDK error of that
\* case, no listener exists, no file-system call was made and the file
\* system is as it was.
BadListenerRejected ==
    (pc # "start" /\ (env.fn_listener = None \/ env.fn_listener[1] \in NotUnixUrls)) =>
        /\ ret = Some([ok |-> FALSE, kind |-> "Fdk",
                       message |-> IF env.fn_listener = None
                                   THEN "No listener url provided"
                                   ELSE "Listener url is not a unix socket"])
        /\ listener = None
        /\ trace = <<>>
        /\ fs = fs0

BadListenerFailed ==
    /\ pc = "failed"
    /\ env.fn_listener = Some("unix:a")
    /\ fs0 # NoFiles

\* C7: a constructed listener holds public_path = P and private_path =
\* P.private for the listener value unix:/P, and a listener, once
\* constructed, never changes.
PathsDerivedExactly ==
    /\ [](listener # None =>
            /\ env.fn_listener[1] = "unix:/" \o listener[1].socket_path
            /\ listener[1].private_socket_path = listener[1].socket_path \o ".private")
    /\ [][listener # None => listener' = listener]_vars

NestedPrefixConstructed ==
    /\ listener # None
    /\ env.fn_listener = Some("unix:/unix:/a")
    /\ listener[1].socket_path = "unix:/a"
    /\ lk.calls > 0

LinkReturnedOk == lk.at = "idle" /\ lk.calls > 0 /\ ret = Some(Ok)

\* C8: when link_socket_file has returned success, public_path is a symbolic
\* link to private_path and the mode of the file at private_path grants
\* read and write to owner, group and others.
PublishedOnSuccess ==
    LinkReturnedOk =>
        /\ listener[1].socket_path \in DOMAIN fs
        /\ fs[listener[1].socket_path].kind = "symlink"
        /\ fs[listener[1].socket_path].target = listener[1].private_socket_path
        /\ listener[1].private_socket_path \in DOMAIN fs
        /\ GrantsReadWriteToAll(fs[listener[1].private_socket_path].mode)

LinkSucceeded ==
    /\ LinkReturnedOk
    /\ umask = 18
    /\ listener[1].socket_path = "a/"

StartupFailed == ret # None /\ ~ret[1].ok

\* C9: once a construction step of actix_main has failed, the program has
\* panicked, has accepted no request and has tried the bind at most once;
\* a program that has panicked takes no further step.
FailureAbortsStartup ==
    /\ [](StartupFailed =>
            /\ pc = "panicked"
            /\ reqs = <<>>
            /\ Cardinality({i \in 1..Len(trace) : trace[i].op = "bind"}) <= 1)
    /\ [][pc = "panicked" => pc' = "panicked" /\ reqs' = reqs /\ trace' = trace]_vars

BindFailureAborted ==
    /\ pc = "panicked"
    /\ ret = Some([ok |-> FALSE, kind |-> "Io", message |-> "bind"])
    /\ env.fn_listener = Some("unix:/a")
    /\ "a.private" \in DOMAIN fs0

\* what FDK_LOG_THRESHOLD means, as <<high 16 bits, low 16 bits>>: the
\* unsigned 32-bit integer it is the decimal form of, DEFAULT otherwise
ThresholdMeant ==
    IF env.fdk_log_threshold = None THEN <<0, 1>>
    ELSE LET t == env.fdk_log_threshold[1] IN
         IF t \in {"0", "+0"} THEN <<0, 0>>
         ELSE IF t \in {"1", "01"} THEN <<0, 1>>
         ELSE IF t = "2" THEN <<0, 2>>
         ELSE IF t = "4294967295" THEN <<65535, 65535>>
         ELSE <<0, 1>>

SeverityMeant(call) ==
    IF call.log_level = None THEN <<0, 1>>
    ELSE <<call.log_level[1].hi, call.log_level[1].lo>>

MeantToBeWritten(call) ==
    LET sev == SeverityMeant(call) IN
    \/ sev[1] > ThresholdMeant[1]
    \/ sev[1] = ThresholdMeant[1] /\ sev[2] >= ThresholdMeant[2]

\* C10: the diagnostic stream holds exactly the contents of the log calls
\* whose severity (DEFAULT when none is given) is at least the threshold
\* FDK_LOG_THRESHOLD stands for, in the order of the calls.
WrittenIffAtLeastThreshold ==
    LET written == SelectSeq(logs, MeantToBeWritten) IN
    /\ Len(stderr) = Len(written)
    /\ \A i \in 1..Len(written) : stderr[i] = written[i].content

\* at an unparsable threshold a debug message was suppressed and a default
\* message written
DebugSuppressedDefaultWritten ==
    /\ env.fdk_log_threshold = Some("abc")
    /\ Len(logs) = 2
    /\ logs[1].via = "debug"
    /\ logs[2].log_level = None
    /\ stderr = <<logs[2].content>>

\* log_error has just been called on the error "traced", whose backtrace
\* is the frames f1, f2
TracedErrorLogged ==
    /\ Len(logs') = Len(logs) + 2
    /\ logs'[Len(logs) + 1] = [via |-> "log_error", content |-> "traced", log_level |-> None]

\* C11: log_error on an error with a two-frame backtrace writes, at
\* threshold DEFAULT, the message and nothing else, and at threshold DEBUG
\* the message and then the frames joined by newlines in their order.
LogErrorMessageThenBacktrace ==
    [][TracedErrorLogged =>
        /\ ThresholdMeant = <<0, 1>> => stderr' = Append(stderr, "traced")
        /\ ThresholdMeant = <<0, 0>> => stderr' = stderr \o <<"traced", "f1\nf2">>]_vars

BacktraceWrittenAtDebug ==
    /\ env.fdk_log_threshold = Some("0")
    /\ Len(logs) = 2
    /\ logs[1].via = "log_error"
    /\ stderr = <<"traced", "f1\nf2">>

\* a step of link_socket_file in which the file-system call op failed
StepFailed(op) ==
    /\ Len(trace') = Len(trace) + 1
    /\ trace'[Len(trace')].op = op
    /\ ~trace'[Len(trace')].ok

\* the call of link_socket_file ends here with res, leaving the file
\* system and the diagnostic stream as they are
LinkEndsWith(res) ==
    /\ lk'.at = "idle"
    /\ ret' = Some(res)
    /\ fs' = fs
    /\ logs' = logs
    /\ stderr' = stderr

\* C12: a failed File::open ends link_socket_file with the FDK error
\* "Cannot access private socket file", a failed set_permissions and a
\* failed symlink end it with the I/O error, each without any later step
\* and without the log line; the log line is written in the step that
\* returns Ok, after the three calls succeeded in this order.
LinkFailsAsAWhole ==
    [][/\ StepFailed("open") =>
            LinkEndsWith([ok |-> FALSE, kind |-> "Fdk",
                          message |-> "Cannot access private socket file"])
       /\ StepFailed("set_permissions") =>
            LinkEndsWith([ok |-> FALSE, kind |-> "Io", message |-> "set_permissions"])
       /\ StepFailed("symlink") =>
            LinkEndsWith([ok |-> FALSE, kind |-> "Io", message |-> "symlink"])
       /\ logs' # logs =>
            /\ ret' = Some([ok |-> TRUE, kind |-> "", message |-> ""])
            /\ Len(trace) >= 3
            /\ trace' = trace
            /\ LET n == Len(trace) IN
               /\ trace[n - 2].op = "open" /\ trace[n - 2].ok
               /\ trace[n - 1].op = "set_permissions" /\ trace[n - 1].ok
               /\ trace[n].op = "symlink" /\ trace[n].ok]_vars

\* the permission change failed: the call returned the I/O error and the
\* link was not made
WideningFailed ==
    /\ lk.at = "idle"
    /\ ret = Some([ok |-> FALSE, kind |-> "Io", message |-> "set_permissions"])
    /\ fs0 = NoFiles
    /\ listener[1].socket_path = "a"
    /\ "a" \notin DOMAIN fs
    /\ logs = <<>>

\* FN_LISTENER=unix:/a, and the socket file a.private of an earlier run is
\* still there
StalePrivateInTheWay ==
    /\ env.fn_listener = Some("unix:/a")
    /\ "a.private" \in DOMAIN fs0

\* C13: when FdkListener::new finds an entry at private_path, or the bind
\* fails for another reason, it returns the I/O error of the bind, no
\* listener exists, and the file system, the entries at private_path and
\* public_path included, is as it was.
BindFailureLeavesFilesAlone ==
    /\ (pc # "start" /\ StalePrivateInTheWay) => BindFailed
    /\ BindFailed =>
        /\ ret = Some([ok |-> FALSE, kind |-> "Io", message |-> "bind"])
        /\ listener = None
        /\ fs = fs0
        /\ Len(trace) = 1

StaleSocketRefused ==
    /\ pc = "failed"
    /\ StalePrivateInTheWay
    /\ "a" \in DOMAIN fs0
    /\ fs = fs0

PipelineOrder == <<"fdk_middleware_req", "handler", "fdk_middleware_res">>

\* C14: for every request the server has accepted, the steps taken so far
\* are the first ones of pre-request transform, terminal handler,
\* post-response transform, and a request that has left the pipeline has
\* passed through all three, once each.
PipelineRunsInOrder ==
    \A i \in 1..Len(reqs) :
        /\ Len(reqs[i].steps) <= 3
        /\ reqs[i].steps = SubSeq(PipelineOrder, 1, Len(reqs[i].steps))
        /\ reqs[i].at \in {"done", "panicked"} => reqs[i].steps = PipelineOrder
        /\ reqs[i].at = "ready" => Len(reqs[i].steps) = 2
        /\ reqs[i].at = "called" => Len(reqs[i].steps) = 1
        /\ reqs[i].at = "start" => reqs[i].steps = <<>>

\* the second request has left the pipeline while the first is still
\* waiting for its handler
SecondOvertakesFirst ==
    /\ Len(reqs) = 2
    /\ reqs[1].at = "called"
    /\ reqs[2].at \in {"done", "panicked"}
    /\ reqs[2].steps = <<"fdk_middleware_req", "handler", "fdk_middleware_res">>

\* C15: the request the terminal handler is called with is the inbound
\* request, whatever the request and the configuration, and no step
\* changes the configuration.
PreRequestTransformIsIdentity ==
    /\ [](\A i \in 1..Len(reqs) :
            reqs[i].handled # None => reqs[i].handled[1] = reqs[i].req)
    /\ [][env' = env]_vars

RequestWithHeadersHandled ==
    /\ Len(reqs) >= 1
    /\ reqs[1].at = "ready"
    /\ reqs[1].req.method = "POST"
    /\ reqs[1].handled[1].headers = ("connection" :> <<"keep-alive">>)
    /\ env.fdk_log_threshold = Some("2")

\* C16: the configuration never changes; the listener and its paths exist
\* before the first request is accepted and never change; every request,
\* under any interleaving, reads the configuration the process started with.
ConfigurationFixedBeforeServing ==
    /\ [][env' = env]_vars
    /\ [][listener # None => listener' = listener]_vars
    /\ [](reqs # <<>> => listener # None)
    /\ [](\A i \in 1..Len(reqs) : reqs[i].env # None => reqs[i].env[1] = env)

TwoRequestsReadConfiguration ==
    /\ Len(reqs) = 2
    /\ reqs[1].at = "called"
    /\ reqs[2].at = "panicked"
    /\ reqs[1].env = Some(env)
    /\ reqs[2].env = Some(env)
    /\ env.fdk_log_threshold = Some("0")

\* an earlier run has left an entry at public_path
StaleAtPublic == listener # None /\ listener[1].socket_path \in DOMAIN fs0

SymlinksMade == {i \in 1..Len(trace) : trace[i].op = "symlink" /\ trace[i].ok}

\* C17 as stated: with an entry at public_path from an earlier run, a call
\* of link_socket_file that has returned has failed at the symlink step
\* with the I/O error, the entry is as it was and the private socket file
\* has mode 0o666.
SecondPublishFailsAtSymlink ==
    (StaleAtPublic /\ lk.at = "idle" /\ lk.calls > 0) =>
        /\ ret = Some([ok |-> FALSE, kind |-> "Io", message |-> "symlink"])
        /\ fs[listener[1].socket_path] = fs0[listener[1].socket_path]
        /\ fs[listener[1].private_socket_path].mode = 438

\* C17, amended: the symlink step of link_socket_file, reached with an
\* entry at public_path, fails with the I/O error and ends the call,
\* leaves the file system as it is, and the private socket file keeps
\* mode 0o666; so the link is made at most once, and never when an earlier
\* run has left an entry at public_path.
PublishNotIdempotent ==
    /\ [][(lk.at = "widened" /\ listener[1].socket_path \in DOMAIN fs) =>
            /\ lk'.at = "idle"
            /\ ret' = Some([ok |-> FALSE, kind |-> "Io", message |-> "symlink"])
            /\ fs' = fs
            /\ fs'[listener[1].private_socket_path].mode = 438]_vars
    /\ [](Cardinality(SymlinksMade) <= 1)
    /\ [](StaleAtPublic => SymlinksMade = {})

\* the second call after a successful publish has failed at the symlink
SecondCallRefused ==
    /\ lk.at = "idle"
    /\ lk.calls = 2
    /\ ret = Some([ok |-> FALSE, kind |-> "Io", message |-> "symlink"])
    /\ fs0 = NoFiles
    /\ umask = 63
    /\ listener[1].socket_path \in DOMAIN fs
    /\ fs[listener[1].socket_path].by = "self"
    /\ fs[listener[1].private_socket_path].mode = 438

\* FDK_LOG_THRESHOLD stands for 2 or more
ThresholdAboveDefault == ThresholdMeant[1] > 0 \/ ThresholdMeant[2] >= 2

\* C18 as stated: at a threshold above DEFAULT nothing is ever written
SilentAboveDefault == ThresholdAboveDefault => stderr = <<>>

\* the log calls of this step all have severity DEBUG or DEFAULT
OnlyDefinedSeverities ==
    \A i \in (Len(logs) + 1)..Len(logs') :
        SeverityMeant(logs'[i]) \in {<<0, 0>>, <<0, 1>>}

\* C18, amended: at a threshold above DEFAULT, a call of debug or of
\* log_error, or of log with severity absent, DEFAULT or DEBUG, writes
\* nothing.
DefinedSeveritiesSilentAboveDefault ==
    [][(ThresholdAboveDefault /\ OnlyDefinedSeverities) => stderr' = stderr]_vars

ErrorSuppressed ==
    /\ env.fdk_log_threshold = Some("2")
    /\ Len(logs) = 3
    /\ logs[1].via = "log_error"
    /\ logs[1].content = "traced"
    /\ logs[3].via = "debug"
    /\ stderr = <<>>

OtherHeaders(headers) == DOMAIN headers \ {"connection"}

\* C19: the response that leaves the post-response transform has the
\* status, the body and every header other than Connection of the response
\* the handler produced.
OnlyConnectionChanges ==
    \A i \in 1..Len(reqs) :
        (reqs[i].at \in {"done", "panicked"} /\ reqs[i].inner[1].ok) =>
            /\ reqs[i].out # None
            /\ reqs[i].out[1].ok
            /\ reqs[i].out[1].res.status = reqs[i].inner[1].res.status
            /\ reqs[i].out[1].res.body = reqs[i].inner[1].res.body
            /\ OtherHeaders(reqs[i].out[1].res.headers)
                  = OtherHeaders(reqs[i].inner[1].res.headers)
            /\ \A h \in OtherHeaders(reqs[i].inner[1].res.headers) :
                  reqs[i].out[1].res.headers[h] = reqs[i].inner[1].res.headers[h]

====
